---- MODULE Spec2Model ----
(***************************************************************************)
(* Model of the OAuth 2.0 PKCE authentication and token lifecycle of the   *)
(* Microsoft skill CLI (scripts/lib/auth.ts, kept in src/ as lib/types.ts  *)
(* lines 67-593, and scripts/microsoft.ts).                                *)
(*                                                                         *)
(* One CLI process runs one command at a time.  The file system (token     *)
(* files of the two scopes, their directories, .gitignore, the credential  *)
(* sources) and the clock outlive the process; everything else is reset    *)
(* when the process has exited and the next command starts.                *)
(*                                                                         *)
(* JavaScript values: Undef stands for undefined/null (a field a JSON body *)
(* does not carry, a query parameter the URL does not carry), "" is the    *)
(* empty string.  Both are falsy, which the code's `if (x)` and `x || y`   *)
(* tests do not tell apart; `!==` does.                                    *)
(***************************************************************************)
EXTENDS Integers, Sequences, FiniteSets, TLC

VARIABLES
    tokenFile,   \* [Scopes -> <<>> (no file) or <<text of the file>>]
    tokenDir,    \* [Scopes -> BOOLEAN]: the directory of the token file exists
    gitignore,   \* <<>> (no file) or <<content>>, content a sequence of blocks
    credEnv,     \* the credentials file and the 1Password CLI of this machine
    now,         \* Date.now(), milliseconds
    nonce,       \* number of PKCE generations so far (source of fresh values)
    runs,        \* number of commands started so far
    pc,          \* position of the running command
    cmd,         \* the running command
    authGlobal,  \* performAuth's `global` argument / saveToken's
    pkce,        \* codeVerifier, codeChallenge and state of this performAuth
    listener,    \* the callback http.Server
    served,      \* requests the request handler has handled in this run
    lastReq,     \* the request the latest step handled while the callback
                 \* promise was pending, NoQuery if it handled none
    lastStatus,  \* the HTTP status the latest step answered, 0 if none
    outcome,     \* settlement of the callback promise
    timerAt,     \* due time of the setTimeout, -1 when none is pending
    browser,     \* "opened" once openBrowser has been called
    tokenReqs,   \* requests this run sent to the token endpoint
    lastResp,    \* the token endpoint's response handled last
    snapshot,    \* tokenFile as it was when the command started
    startedAt,   \* Date.now() when getValidAccessToken compared expires_at
    readPath,    \* the scope findTokenPath resolved to ("none": not resolved)
    err,         \* the error the command failed with: kind ("": none), message
    retToken,    \* the access token getValidAccessToken returned
    retRecord,   \* the record loadToken returned, <<>> when none
    saveArg,     \* the record saveToken was passed, <<>> when none
    stdout,      \* the JSON values the process has written to standard output
    authUrl,     \* the authorization URL of this performAuth, <<>> when none
    writers      \* two processes inside saveToken at the same time

vars == <<tokenFile, tokenDir, gitignore, credEnv, now, nonce, runs, pc, cmd,
          authGlobal, pkce, listener, served, lastReq, lastStatus,
          outcome, timerAt, browser, tokenReqs, lastResp, snapshot, startedAt,
          readPath, err, retToken, retRecord, saveArg, stdout, authUrl,
          writers>>

envVars == <<tokenFile, tokenDir, gitignore, credEnv, now, nonce>>

-----------------------------------------------------------------------------
(* Bounds of the model *)

MaxRuns == 1        \* commands per behaviour
MaxRequests == 2    \* requests the callback listener is sent per run
MaxTicks == 1       \* clock steps per behaviour
TickMs == 300000    \* length of one clock step, ms

(* Program constants *)

TIMEOUT_MS == 300000      \* setTimeout(..., 300000)
bufferMs == 5 * 60 * 1000 \* getValidAccessToken's safety buffer
DEFAULT_EXPIRES_IN == 3600

Undef == "undefined"
SCOPES == "User.Read Mail.Read offline_access"
CALLBACK_URL == "http://localhost:3000/callback"
GITIGNORE_PATTERN == ".claude/*.local.*"

Scopes == {"Project", "Global"}
OtherScope(s) == IF s = "Project" THEN "Global" ELSE "Project"

Truthy(s) == s # Undef /\ s # ""
OrElse(a, b) == IF Truthy(a) THEN a ELSE b

MaxNow == MaxTicks * TickMs

-----------------------------------------------------------------------------
(* Data *)

NoRecord == <<>>
HasFile(files, s) == Len(files[s]) > 0

TokenData(at, rt, exp, sc, tt) ==
    [access_token |-> at, refresh_token |-> rt, expires_at |-> exp,
     scope |-> sc, token_type |-> tt]

\* JSON.stringify of one property: a property whose value is undefined is
\* left out of the text.
jsonProperty(key, value) == IF value = Undef THEN <<>> ELSE << <<key, value>> >>

\* Mutant: properties with a falsy value are left out as well.
JSONstringify_DropsFalsy(tokenData) ==
    (IF Truthy(tokenData.access_token)
     THEN << <<"access_token", tokenData.access_token>> >> ELSE <<>>)
    \o (IF Truthy(tokenData.refresh_token)
        THEN << <<"refresh_token", tokenData.refresh_token>> >> ELSE <<>>)
    \o << <<"expires_at", tokenData.expires_at>> >>
    \o (IF Truthy(tokenData.scope)
        THEN << <<"scope", tokenData.scope>> >> ELSE <<>>)
    \o (IF Truthy(tokenData.token_type)
        THEN << <<"token_type", tokenData.token_type>> >> ELSE <<>>)

\* JSON.stringify(tokenData, null, 2): the text of the token file, as the
\* sequence of its "key": value members in property order.  expires_at is
\* always a finite number and is always written.
JSONstringify(tokenData) ==
    jsonProperty("access_token", tokenData.access_token)
    \o jsonProperty("refresh_token", tokenData.refresh_token)
    \o << <<"expires_at", tokenData.expires_at>> >>
    \o jsonProperty("scope", tokenData.scope)
    \o jsonProperty("token_type", tokenData.token_type)

\* Reading a property of the parsed object: undefined when the text has no
\* such member.
jsonMember(text, key) ==
    IF \E i \in 1..Len(text) : text[i][1] = key
    THEN text[CHOOSE i \in 1..Len(text) : text[i][1] = key][2]
    ELSE Undef

\* A file text is a sequence of members, each a <<key, value>> pair; a text
\* holding anything else is not JSON and JSON.parse throws a SyntaxError.
JSONparses(text) == \A i \in 1..Len(text) : Len(text[i]) = 2

\* A token file cut short: not JSON.
CorruptText == << <<"access_token", "atP">>, <<"expires_">> >>

\* JSON.parse(content) of a token file, read through the TokenData fields.
JSONparse(text) ==
    TokenData(jsonMember(text, "access_token"),
              jsonMember(text, "refresh_token"),
              jsonMember(text, "expires_at"),
              jsonMember(text, "scope"),
              jsonMember(text, "token_type"))

\* A record written by an earlier, complete run for the given scope.
StoredRecord(s, exp) ==
    TokenData(IF s = "Project" THEN "atP" ELSE "atG",
              IF s = "Project" THEN "rtP" ELSE "rtG",
              exp, SCOPES, "Bearer")

\* expires_at of the records on disk at the start: now + 4 min, now + 10 min.
InitExpiries(s) == IF s = "Project" THEN {240000, 600000} ELSE {240000}

InitFiles(s) ==
    {NoRecord} \cup {<<JSONstringify(StoredRecord(s, e))>> : e \in InitExpiries(s)}

\* Records a caller of the exported saveToken passes.
SaveInputs ==
    { TokenData("atS", "rtS", 900000, SCOPES, "Bearer"),
      TokenData("atS", Undef, 900000, "", Undef) }

\* A JSON body of the token endpoint (ok), or a failed fetch / unparsable body.
\* status is the HTTP status of the response, 0 when there is none.
Response(ok, status, e, d, at, rt, ei, sc, tt) ==
    [ok |-> ok, status |-> status, error |-> e, error_description |-> d,
     access_token |-> at, refresh_token |-> rt, expires_in |-> ei,
     scope |-> sc, token_type |-> tt]

NoResponse == Response(FALSE, 0, Undef, Undef, Undef, Undef, 0, Undef, Undef)

\* expires_in = 0 stands for a body without expires_in (both are falsy).
Responses ==
    { NoResponse,
      Response(TRUE, 400, "invalid_grant", "expired", Undef, Undef, 0, Undef,
               Undef),
      Response(TRUE, 200, "invalid_client", Undef, Undef, Undef, 0, Undef,
               Undef),
      Response(TRUE, 200, Undef, Undef, "atN", "rtN", 3600, SCOPES, "Bearer"),
      Response(TRUE, 200, Undef, Undef, "atN", Undef, 240, Undef, Undef),
      Response(TRUE, 200, Undef, Undef, Undef, Undef, 0, Undef, Undef) }

\* The credentials file and the 1Password CLI.
CredEnv(fileState, fid, fsec, opAvail, oid, osec) ==
    [file |-> fileState, client_id |-> fid, client_secret |-> fsec,
     op |-> opAvail, op_id |-> oid, op_secret |-> osec]

CredEnvs ==
    { CredEnv("json", "fid", "fsec", TRUE, "oid", "osec"),
      CredEnv("json", "fid", "", TRUE, "oid", "osec"),
      CredEnv("none", Undef, Undef, TRUE, "oid", Undef),
      CredEnv("corrupt", Undef, Undef, FALSE, Undef, Undef) }

\* Query parameters of an inbound request; Undef: searchParams.get gives null.
Query(path, e, st, c) == [path |-> path, error |-> e, state |-> st, code |-> c]
NoQuery == Query("", Undef, Undef, Undef)

StateOf(n) == "st" \o ToString(n)
VerifierOf(n) == "v" \o ToString(n)

\* Requests a client can send while `state` is the expected state.
Queries(state) ==
    { Query(p, e, st, c) :
        p \in {"/callback", "/favicon.ico"},
        e \in {Undef, "", "access_denied"},
        st \in {Undef, "st0", state},
        c \in {Undef, "", "ABC"} }

Pending == [kind |-> "pending", val |-> ""]
NoPkce == [verifier |-> "", challenge |-> "", state |-> ""]

-----------------------------------------------------------------------------
(* Credential and token management *)

NoCredentials == [ok |-> FALSE, client_id |-> Undef, client_secret |-> Undef]

loadCredentialsFrom1Password(env) ==
    IF Truthy(env.op_id) /\ Truthy(env.op_secret)
    THEN [ok |-> TRUE, client_id |-> env.op_id, client_secret |-> env.op_secret]
    ELSE NoCredentials

\* Mutant: a field the file lacks is filled in from 1Password.
loadCredentials_MixesSources(env) ==
    IF env.file = "json" /\ Truthy(env.client_id) /\ Truthy(env.client_secret)
    THEN [ok |-> TRUE, client_id |-> env.client_id,
          client_secret |-> env.client_secret]
    ELSE IF env.op /\ Truthy(env.op_id) /\ Truthy(env.op_secret)
         THEN [ok |-> TRUE,
               client_id |-> IF env.file = "json"
                             THEN OrElse(env.client_id, env.op_id)
                             ELSE env.op_id,
               client_secret |-> IF env.file = "json"
                                 THEN OrElse(env.client_secret, env.op_secret)
                                 ELSE env.op_secret]
         ELSE NoCredentials

\* loadCredentials: the credentials file when it parses and has both fields
\* truthy, else 1Password when the op CLI runs, else the throw.
loadCredentials(env) ==
    IF env.file = "json" /\ Truthy(env.client_id) /\ Truthy(env.client_secret)
    THEN [ok |-> TRUE, client_id |-> env.client_id,
          client_secret |-> env.client_secret]
    ELSE IF env.op
         THEN loadCredentialsFrom1Password(env)
         ELSE NoCredentials

\* Mutant: the lookup tries the Global file first.
findTokenPath_GlobalFirst(files) ==
    IF HasFile(files, "Global") THEN "Global"
    ELSE IF HasFile(files, "Project") THEN "Project"
    ELSE "none"

\* The scope whose token file exists, Project first; "none" for null.
findTokenPath(files) ==
    IF HasFile(files, "Project") THEN "Project"
    ELSE IF HasFile(files, "Global") THEN "Global"
    ELSE "none"

TokenScope(global) == IF global THEN "Global" ELSE "Project"

\* Mutant: the `global` argument is ignored, the Project file is written.
saveTokenFile_AlwaysProject(files, tokenData, global) ==
    [files EXCEPT !["Project"] = <<JSONstringify(tokenData)>>]

\* saveToken: mkdir -p of the directory, then the whole record is written.
saveTokenFile(files, tokenData, global) ==
    [files EXCEPT ![TokenScope(global)] = <<JSONstringify(tokenData)>>]

\* fs.readFile of the token file of scope s and JSON.parse of its content.
readTokenFile(files, s) == JSONparse(files[s][1])

\* fs.writeFile, first step: open(path, "w") creates the file or truncates
\* it to empty.
writeFileOpen(files, s) == [files EXCEPT ![s] = << <<>> >>]

\* fs.writeFile, second step: the text is written from this descriptor's
\* own position 0 over whatever the file holds by then; what lies beyond
\* the text's end stays.
writeFileWrite(files, s, text) ==
    [files EXCEPT ![s] =
        << text \o SubSeq(files[s][1], Len(text) + 1, Len(files[s][1])) >>]

saveTokenDir(dirs, global) == [dirs EXCEPT ![TokenScope(global)] = TRUE]

\* Mutant: every record is taken to live in the Global directory.
isGlobalPath_Always(tokenPath) == TRUE

\* Mutant: the refreshed record always goes to the default (Project) scope.
isGlobalPath_Never(tokenPath) == FALSE

\* refreshAccessToken: isGlobal = (tokenPath === getGlobalTokenPath())
isGlobalPath(tokenPath) == tokenPath = "Global"

\* Mutant: the record is refreshed only once it has expired (no buffer).
needsRefresh_NoBuffer(tokenData, t) == tokenData.expires_at < t

\* getValidAccessToken: tokenData.expires_at < Date.now() + bufferMs
needsRefresh(tokenData, t) == tokenData.expires_at < t + bufferMs

\* Mutant: expires_in is added as if it were milliseconds.
expiresAt_NoConversion(data, t) ==
    t + (IF data.expires_in # 0 THEN data.expires_in ELSE DEFAULT_EXPIRES_IN)

\* Date.now() + (data.expires_in || 3600) * 1000
expiresAt(data, t) ==
    t + (IF data.expires_in # 0 THEN data.expires_in ELSE DEFAULT_EXPIRES_IN) * 1000

\* Mutant: the stored refresh token is not kept when the body has none.
refreshTokenData_NoFallback(data, refreshToken, t) ==
    TokenData(data.access_token,
              data.refresh_token,
              expiresAt(data, t),
              OrElse(data.scope, SCOPES),
              OrElse(data.token_type, "Bearer"))

\* refreshAccessToken: the record built from the response body.
refreshTokenData(data, refreshToken, t) ==
    TokenData(data.access_token,
              OrElse(data.refresh_token, refreshToken),
              expiresAt(data, t),
              OrElse(data.scope, SCOPES),
              OrElse(data.token_type, "Bearer"))

\* performAuth: the record built from the response body of the code exchange.
exchangeTokenData(data, t) ==
    TokenData(data.access_token, data.refresh_token, expiresAt(data, t),
              data.scope, data.token_type)

\* Mutant: a body is taken for an error only when the HTTP status says so.
hasProviderError_ByStatus(data) == data.status >= 400 /\ Truthy(data.error)

\* if (data.error): the parsed body is tested, response.ok and
\* response.status are never read.
hasProviderError(data) == Truthy(data.error)

\* The message of the Error thrown for a body with an error field.
providerMessage(data) == OrElse(data.error_description, data.error)

TokenRequest(grant, creds, code, verifier, refreshToken, redirect, scope) ==
    [grant_type |-> grant, client_id |-> creds.client_id,
     client_secret |-> creds.client_secret, code |-> code,
     code_verifier |-> verifier, refresh_token |-> refreshToken,
     redirect_uri |-> redirect, scope |-> scope]

refreshRequest(creds, refreshToken) ==
    TokenRequest("refresh_token", creds, Undef, Undef, refreshToken, Undef, SCOPES)

\* Mutant: the code challenge is sent in place of the code verifier.
exchangeRequest_SendsChallenge(creds, code, verifier) ==
    TokenRequest("authorization_code", creds, code,
                 "S256:" \o verifier, Undef, CALLBACK_URL, Undef)

\* performAuth: the body of the code exchange request.
exchangeRequest(creds, code, verifier) ==
    TokenRequest("authorization_code", creds, code, verifier, Undef,
                 CALLBACK_URL, Undef)

-----------------------------------------------------------------------------
(* PKCE helpers and .gitignore *)

generateCodeVerifier(n) == VerifierOf(n)

\* Mutant: the verifier itself is used as the challenge (method plain).
generateCodeChallenge_Plain(verifier) == verifier

\* base64url(sha256(verifier)), kept symbolic.
generateCodeChallenge(verifier) == "S256:" \o verifier

generateState(n) == StateOf(n)

\* performAuth: the query parameters set on the authorization URL.
buildAuthUrl(creds, state, codeChallenge) ==
    [client_id |-> creds.client_id, response_type |-> "code",
     redirect_uri |-> CALLBACK_URL, response_mode |-> "query",
     scope |-> SCOPES, state |-> state, code_challenge |-> codeChallenge,
     code_challenge_method |-> "S256"]

Includes(content, block) == \E i \in 1..Len(content) : content[i] = block

\* Mutant: the pattern is appended without looking at the content.
ensureGitignore_AlwaysAppends(g) ==
    IF Len(g) = 0 THEN << <<"pattern">> >>
    ELSE << Append(g[1], "pattern") >>

\* ensureGitignore: the file is created with the pattern when it does not
\* exist, the pattern is appended when the content does not include it.
ensureGitignore(g) ==
    IF Len(g) = 0 THEN << <<"pattern">> >>
    ELSE IF Includes(g[1], "pattern") THEN g
    ELSE << Append(g[1], "pattern") >>

-----------------------------------------------------------------------------
(* The callback listener *)

Settled(kind, val) == [kind |-> kind, val |-> val]

\* Mutant: the handler does not compare the state.
handleRequest_NoStateCheck(q, state) ==
    IF Truthy(q.error)
    THEN [status |-> 400, close |-> TRUE,
          settle |-> Settled("ProviderDenied", q.error)]
    ELSE IF Truthy(q.code)
    THEN [status |-> 200, close |-> TRUE, settle |-> Settled("code", q.code)]
    ELSE [status |-> 404, close |-> FALSE, settle |-> Pending]

\* Mutant: a request with the expected state and no code ends the wait.
handleRequest_MissingCodeRejects(q, state) ==
    IF Truthy(q.error)
    THEN [status |-> 400, close |-> TRUE,
          settle |-> Settled("ProviderDenied", q.error)]
    ELSE IF q.state # state
    THEN [status |-> 400, close |-> TRUE,
          settle |-> Settled("StateMismatch", "State mismatch")]
    ELSE IF Truthy(q.code)
    THEN [status |-> 200, close |-> TRUE, settle |-> Settled("code", q.code)]
    ELSE [status |-> 400, close |-> TRUE,
          settle |-> Settled("MissingCode", "Missing code")]

\* The request handler of http.createServer: the status answered, whether
\* server.close() is called, and the settlement asked of the promise.
handleRequest(q, state) ==
    IF Truthy(q.error)
    THEN [status |-> 400, close |-> TRUE,
          settle |-> Settled("ProviderDenied", q.error)]
    ELSE IF q.state # state
    THEN [status |-> 400, close |-> TRUE,
          settle |-> Settled("StateMismatch", "State mismatch")]
    ELSE IF Truthy(q.code)
    THEN [status |-> 200, close |-> TRUE, settle |-> Settled("code", q.code)]
    ELSE [status |-> 404, close |-> FALSE, settle |-> Pending]

\* Mutant: the timer callback rejects without closing the server.
handleTimeout_NoClose == [close |-> FALSE, settle |-> Settled("Timeout", "Timeout")]

\* The timer callback: server.close(); reject(new Error("Timeout")).
handleTimeout == [close |-> TRUE, settle |-> Settled("Timeout", "Timeout")]

\* Mutant: the settlement is kept in a plain variable, the last one stays.
settlePromise_LastWins(current, asked) ==
    IF asked.kind # "pending" THEN asked ELSE current

\* resolve/reject of a promise: the first settlement stays.
settlePromise(current, asked) ==
    IF current.kind = "pending" THEN asked ELSE current

closeServer(l, close) == IF close THEN "closed" ELSE l

-----------------------------------------------------------------------------
(* State *)

authVars == <<authGlobal, pkce, listener, served, outcome, timerAt, browser>>
\* lastReq and lastStatus describe one step: every other step clears them.
NoRequest == lastReq' = NoQuery /\ lastStatus' = 0
callVars == <<tokenReqs, lastResp, startedAt, readPath, retToken, retRecord,
              saveArg>>

\* State no step of the commands below touches unless it says so.
outVars == <<stdout, authUrl, writers>>

Writer(pc_, tokenData, global, wrote) ==
    [pc |-> pc_, tokenData |-> tokenData, global |-> global, wrote |-> wrote]
NoWriters == [w \in 1..2 |-> Writer("none", NoRecord, FALSE, 0)]

NoError == [kind |-> "", msg |-> ""]
Failure(kind, msg) == [kind |-> kind, msg |-> msg]

Live == pc \in {"auth_wait", "auth_exchange", "gvat_refresh"}
Exited == pc \in {"done", "failed", "crashed"}

\* Everything but the token files at the start of a behaviour.
InitRest ==
    /\ tokenDir = [s \in Scopes |-> HasFile(tokenFile, s)]
    /\ gitignore \in {<<>>, << <<"other">> >>, << <<"other", "pattern">> >>}
    /\ credEnv \in CredEnvs
    /\ now = 0
    /\ nonce = 0
    /\ runs = 0
    /\ pc = "idle"
    /\ cmd = "none"
    /\ authGlobal = FALSE
    /\ pkce = NoPkce
    /\ listener = "none"
    /\ served = 0
    /\ lastReq = NoQuery
    /\ lastStatus = 0
    /\ outcome = Pending
    /\ timerAt = -1
    /\ browser = "none"
    /\ tokenReqs = <<>>
    /\ lastResp = NoResponse
    /\ snapshot = tokenFile
    /\ startedAt = 0
    /\ readPath = "none"
    /\ err = NoError
    /\ retToken = Undef
    /\ retRecord = NoRecord
    /\ saveArg = NoRecord
    /\ stdout = <<>>
    /\ authUrl = <<>>
    /\ writers = NoWriters

Init ==
    /\ tokenFile \in {f \in [Scopes -> UNION {InitFiles(s) : s \in Scopes}] :
                        \A s \in Scopes : f[s] \in InitFiles(s)}
    /\ InitRest

\* A command starts in a fresh process.
Starts(name) ==
    /\ pc = "idle"
    /\ runs < MaxRuns
    /\ runs' = runs + 1
    /\ cmd' = name
    /\ snapshot' = tokenFile

-----------------------------------------------------------------------------
(* The clock, the user, and the end of a process *)

Tick ==
    /\ pc = "idle" \/ Live
    /\ listener # "binding"
    /\ now + TickMs <= MaxNow
    /\ now' = now + TickMs
    /\ NoRequest
    /\ UNCHANGED outVars
    /\ UNCHANGED <<tokenFile, tokenDir, gitignore, credEnv, nonce, runs, pc, cmd,
                   snapshot, err>>
    /\ UNCHANGED <<authVars, callVars>>

\* The user deletes a token file between two commands.
RemoveToken(s) ==
    /\ pc = "idle"
    /\ HasFile(tokenFile, s)
    /\ tokenFile' = [tokenFile EXCEPT ![s] = NoRecord]
    /\ snapshot' = tokenFile'
    /\ NoRequest
    /\ UNCHANGED outVars
    /\ UNCHANGED <<tokenDir, gitignore, credEnv, now, nonce, runs, pc, cmd, err>>
    /\ UNCHANGED <<authVars, callVars>>

\* The process has exited; the next command finds only the file system.
Reset ==
    /\ Exited
    /\ pc' = "idle"
    /\ cmd' = "none"
    /\ authGlobal' = FALSE
    /\ pkce' = NoPkce
    /\ listener' = "none"
    /\ served' = 0
    /\ NoRequest
    /\ stdout' = <<>>
    /\ authUrl' = <<>>
    /\ UNCHANGED writers
    /\ outcome' = Pending
    /\ timerAt' = -1
    /\ browser' = "none"
    /\ tokenReqs' = <<>>
    /\ lastResp' = NoResponse
    /\ snapshot' = tokenFile
    /\ startedAt' = 0
    /\ readPath' = "none"
    /\ err' = NoError
    /\ retToken' = Undef
    /\ retRecord' = NoRecord
    /\ saveArg' = NoRecord
    /\ UNCHANGED <<envVars, runs>>

-----------------------------------------------------------------------------
(* saveToken, loadToken *)

SaveToken(tokenData, global) ==
    /\ Starts("saveToken")
    /\ authGlobal' = global
    /\ tokenDir' = saveTokenDir(tokenDir, global)
    /\ tokenFile' = saveTokenFile(tokenFile, tokenData, global)
    /\ pc' = "done"
    /\ UNCHANGED <<gitignore, credEnv, now, nonce, err>>
    /\ NoRequest
    /\ UNCHANGED outVars
    /\ UNCHANGED <<pkce, listener, served, outcome, timerAt, browser>>
    /\ saveArg' = <<tokenData>>
    /\ UNCHANGED <<tokenReqs, lastResp, startedAt, readPath, retToken, retRecord>>

\* loadToken: the file findTokenPath resolves to is read and parsed.
loadToken ==
    LET tokenPath == findTokenPath(tokenFile) IN
    /\ readPath' = tokenPath
    /\ IF tokenPath = "none"
       THEN /\ pc' = "failed"
            /\ err' = Failure("TokenNotFound", "Token not found")
            /\ retRecord' = NoRecord
       ELSE /\ pc' = "done"
            /\ err' = NoError
            /\ retRecord' = <<readTokenFile(tokenFile, tokenPath)>>

LoadToken ==
    /\ Starts("loadToken")
    /\ loadToken
    /\ NoRequest
    /\ UNCHANGED outVars
    /\ UNCHANGED <<envVars, authVars>>
    /\ UNCHANGED <<tokenReqs, lastResp, startedAt, retToken, saveArg>>

\* A caller of the two exported functions reads back what it has just saved:
\* await saveToken(tokenData, global); await loadToken().
SaveThenLoad ==
    /\ pc = "done"
    /\ cmd = "saveToken"
    /\ cmd' = "saveToken+loadToken"
    /\ loadToken
    /\ NoRequest
    /\ UNCHANGED outVars
    /\ UNCHANGED <<envVars, authVars, runs, snapshot>>
    /\ UNCHANGED <<tokenReqs, lastResp, startedAt, retToken, saveArg>>

-----------------------------------------------------------------------------
(* checkAuth and the check command *)

\* Mutant: any record that can be read counts as authenticated.
checkAuth_IgnoresExpiry(files, t) ==
    LET tokenPath == findTokenPath(files) IN
    IF tokenPath = "none"
    THEN [authenticated |-> FALSE, error |-> "Token not found"]
    ELSE IF ~JSONparses(files[tokenPath][1])
    THEN [authenticated |-> FALSE, error |-> "SyntaxError"]
    ELSE [authenticated |-> TRUE, error |-> Undef]

\* checkAuth: loadToken's record is compared with the clock; a throw of
\* loadToken (no token file, or a file JSON.parse rejects) is caught and
\* reported.
checkAuth(files, t) ==
    LET tokenPath == findTokenPath(files) IN
    IF tokenPath = "none"
    THEN [authenticated |-> FALSE, error |-> "Token not found"]
    ELSE IF ~JSONparses(files[tokenPath][1])
    THEN [authenticated |-> FALSE, error |-> "SyntaxError"]
    ELSE [authenticated |-> readTokenFile(files, tokenPath).expires_at > t,
          error |-> Undef]

\* main, case "check": output(await checkAuth()).
CheckAuth ==
    /\ Starts("check")
    /\ stdout' = <<checkAuth(tokenFile, now)>>
    /\ UNCHANGED <<authUrl, writers>>
    /\ pc' = "done"
    /\ lastReq' = NoQuery /\ lastStatus' = 0
    /\ UNCHANGED <<envVars, authVars, callVars, err>>

-----------------------------------------------------------------------------
(* getValidAccessToken and refreshAccessToken *)

getValidAccessToken ==
    /\ startedAt' = now
    /\ LET credentials == loadCredentials(credEnv)
           tokenPath == findTokenPath(tokenFile)
       IN
        IF ~credentials.ok
        THEN /\ pc' = "failed"
             /\ err' = Failure("CredentialsNotFound", "No credentials found")
             /\ UNCHANGED <<tokenReqs, readPath, retToken>>
        ELSE IF tokenPath = "none"
        THEN /\ pc' = "failed"
             /\ err' = Failure("TokenNotFound", "Token not found")
             /\ UNCHANGED <<tokenReqs, readPath, retToken>>
        ELSE LET tokenData == readTokenFile(tokenFile, tokenPath) IN
             /\ readPath' = tokenPath
             /\ err' = NoError
             /\ IF needsRefresh(tokenData, now)
                THEN /\ pc' = "gvat_refresh"
                     /\ tokenReqs' = Append(tokenReqs,
                            refreshRequest(credentials, tokenData.refresh_token))
                     /\ UNCHANGED retToken
                ELSE /\ pc' = "done"
                     /\ retToken' = tokenData.access_token
                     /\ UNCHANGED tokenReqs
    /\ NoRequest
    /\ UNCHANGED outVars
    /\ UNCHANGED <<envVars, authVars, lastResp, retRecord, saveArg>>

\* A command calls getValidAccessToken.
GetValidAccessToken ==
    /\ Starts("getValidAccessToken")
    /\ getValidAccessToken

\* The same process calls getValidAccessToken again at once, as the next
\* graphRequest of one command does; the call reads the token file anew.
GetValidAccessTokenAgain ==
    /\ pc = "done"
    /\ cmd = "getValidAccessToken"
    /\ cmd' = "getValidAccessToken+getValidAccessToken"
    /\ snapshot' = tokenFile
    /\ getValidAccessToken
    /\ UNCHANGED runs

\* Mutant: when the refresh fails, a Global record that is still valid is
\* used in its place.
RefreshResponse_FallsBackToGlobal(data) ==
    /\ pc = "gvat_refresh"
    /\ lastResp' = data
    /\ IF ~data.ok \/ hasProviderError(data)
       THEN IF /\ HasFile(tokenFile, "Global")
               /\ ~needsRefresh(readTokenFile(tokenFile, "Global"), now)
            THEN /\ pc' = "done"
                 /\ retToken' = readTokenFile(tokenFile, "Global").access_token
                 /\ UNCHANGED <<tokenFile, tokenDir, err>>
            ELSE /\ pc' = "failed"
                 /\ err' = Failure("TokenExchangeFailed", providerMessage(data))
                 /\ UNCHANGED <<tokenFile, tokenDir, retToken>>
       ELSE LET tokenData ==
                    refreshTokenData(data,
                        readTokenFile(snapshot, readPath).refresh_token, now)
                isGlobal == isGlobalPath(readPath)
            IN
            /\ tokenDir' = saveTokenDir(tokenDir, isGlobal)
            /\ tokenFile' = saveTokenFile(tokenFile, tokenData, isGlobal)
            /\ retToken' = tokenData.access_token
            /\ pc' = "done"
            /\ UNCHANGED err
    /\ UNCHANGED <<gitignore, credEnv, now, nonce, runs, cmd, snapshot>>
    /\ NoRequest
    /\ UNCHANGED outVars
    /\ UNCHANGED <<authVars, tokenReqs, startedAt, readPath, retRecord, saveArg>>

\* The token endpoint answers the refresh request.
RefreshResponse(data) ==
    /\ pc = "gvat_refresh"
    /\ lastResp' = data
    /\ IF ~data.ok
       THEN /\ pc' = "failed"
            /\ err' = Failure("TransportError", "fetch failed")
            /\ UNCHANGED <<tokenFile, tokenDir, retToken>>
       ELSE IF hasProviderError(data)
       THEN /\ pc' = "failed"
            /\ err' = Failure("TokenExchangeFailed", providerMessage(data))
            /\ UNCHANGED <<tokenFile, tokenDir, retToken>>
       ELSE LET tokenData ==
                    refreshTokenData(data,
                        readTokenFile(snapshot, readPath).refresh_token, now)
                isGlobal == isGlobalPath(readPath)
            IN
            /\ tokenDir' = saveTokenDir(tokenDir, isGlobal)
            /\ tokenFile' = saveTokenFile(tokenFile, tokenData, isGlobal)
            /\ retToken' = tokenData.access_token
            /\ pc' = "done"
            /\ UNCHANGED err
    /\ UNCHANGED <<gitignore, credEnv, now, nonce, runs, cmd, snapshot>>
    /\ NoRequest
    /\ UNCHANGED outVars
    /\ UNCHANGED <<authVars, tokenReqs, startedAt, readPath, retRecord, saveArg>>

-----------------------------------------------------------------------------
(* performAuth *)

\* Mutant: a failed wait falls through to the code exchange.
Rejected_ExchangesAnyway(o) ==
    /\ pc' = "auth_exchange"
    /\ tokenReqs' = Append(tokenReqs,
            exchangeRequest(loadCredentials(credEnv), Undef, pkce.verifier))
    /\ UNCHANGED err

\* The rejected callback promise propagates out of performAuth; main's catch
\* calls fail(), which exits the process, before any other event is handled.
Rejected(o) ==
    /\ pc' = "failed"
    /\ err' = Failure(IF o.kind = "Timeout" THEN "AuthTimeout" ELSE o.kind, o.val)
    /\ UNCHANGED tokenReqs

\* The resolved callback promise resumes performAuth, which sends the code
\* exchange request at once.
Resolved(o) ==
    /\ pc' = "auth_exchange"
    /\ tokenReqs' = Append(tokenReqs,
            exchangeRequest(loadCredentials(credEnv), o.val, pkce.verifier))
    /\ UNCHANGED err

\* What a handler's settlement does to the waiting performAuth.
Continue(o) ==
    IF pc = "auth_wait" /\ o.kind # "pending"
    THEN IF o.kind = "code" THEN Resolved(o) ELSE Rejected(o)
    ELSE UNCHANGED <<pc, err, tokenReqs>>

\* Mutant: the token directory and .gitignore are prepared before the
\* credentials are loaded.
PerformAuth_MkdirFirst(global) ==
    /\ Starts("performAuth")
    /\ now + TIMEOUT_MS <= MaxNow
    /\ authGlobal' = global
    /\ tokenDir' = saveTokenDir(tokenDir, global)
    /\ gitignore' = IF global THEN gitignore ELSE ensureGitignore(gitignore)
    /\ IF ~loadCredentials(credEnv).ok
       THEN /\ pc' = "failed"
            /\ err' = Failure("CredentialsNotFound", "No credentials found")
            /\ UNCHANGED <<nonce, pkce, listener, timerAt, authUrl>>
       ELSE /\ nonce' = nonce + 1
            /\ pkce' = [verifier |-> generateCodeVerifier(nonce + 1),
                        challenge |->
                            generateCodeChallenge(generateCodeVerifier(nonce + 1)),
                        state |-> generateState(nonce + 1)]
            /\ authUrl' = <<buildAuthUrl(loadCredentials(credEnv),
                            generateState(nonce + 1),
                            generateCodeChallenge(generateCodeVerifier(nonce + 1)))>>
            /\ listener' = "binding"
            /\ timerAt' = now + TIMEOUT_MS
            /\ pc' = "auth_wait"
            /\ UNCHANGED err
    /\ UNCHANGED <<tokenFile, credEnv, now>>
    /\ NoRequest
    /\ UNCHANGED <<stdout, writers>>
    /\ UNCHANGED <<served, outcome, browser>>
    /\ UNCHANGED callVars

\* performAuth up to the creation of the callback promise: credentials,
\* mkdir, ensureGitignore, PKCE, createServer, listen, setTimeout.
PerformAuth(global) ==
    /\ Starts("performAuth")
    /\ now + TIMEOUT_MS <= MaxNow
    /\ authGlobal' = global
    /\ IF ~loadCredentials(credEnv).ok
       THEN /\ pc' = "failed"
            /\ err' = Failure("CredentialsNotFound", "No credentials found")
            /\ UNCHANGED <<tokenDir, gitignore, nonce, pkce, listener, timerAt,
                           authUrl>>
       ELSE /\ tokenDir' = saveTokenDir(tokenDir, global)
            /\ gitignore' = IF global THEN gitignore ELSE ensureGitignore(gitignore)
            /\ nonce' = nonce + 1
            /\ pkce' = [verifier |-> generateCodeVerifier(nonce + 1),
                        challenge |->
                            generateCodeChallenge(generateCodeVerifier(nonce + 1)),
                        state |-> generateState(nonce + 1)]
            /\ authUrl' = <<buildAuthUrl(loadCredentials(credEnv),
                            generateState(nonce + 1),
                            generateCodeChallenge(generateCodeVerifier(nonce + 1)))>>
            /\ listener' = "binding"
            /\ timerAt' = now + TIMEOUT_MS
            /\ pc' = "auth_wait"
            /\ UNCHANGED err
    /\ UNCHANGED <<tokenFile, credEnv, now>>
    /\ NoRequest
    /\ UNCHANGED <<stdout, writers>>
    /\ UNCHANGED <<served, outcome, browser>>
    /\ UNCHANGED callVars

\* The 'listening' event: the listen callback opens the browser (a throw of
\* openBrowser is caught and only logged).
Listening ==
    /\ pc = "auth_wait"
    /\ listener = "binding"
    /\ listener' = "listening"
    /\ browser' = "opened"
    /\ UNCHANGED <<envVars, runs, pc, cmd, snapshot, err>>
    /\ NoRequest
    /\ UNCHANGED outVars
    /\ UNCHANGED <<authGlobal, pkce, served, outcome, timerAt>>
    /\ UNCHANGED callVars

\* The 'listening' event where the opener cannot be spawned (no xdg-open /
\* open / cmd on the machine): spawn() does not throw, the child emits
\* 'error' on the next tick, nothing listens for it, and the process dies
\* of the uncaught exception before any request is handled.
ListeningSpawnError ==
    /\ pc = "auth_wait"
    /\ listener = "binding"
    /\ listener' = "listening"
    /\ browser' = "opened"
    /\ pc' = "crashed"
    /\ err' = Failure("SpawnError", "spawn ENOENT")
    /\ UNCHANGED <<envVars, runs, cmd, snapshot>>
    /\ NoRequest
    /\ UNCHANGED outVars
    /\ UNCHANGED <<authGlobal, pkce, served, outcome, timerAt>>
    /\ UNCHANGED callVars

\* Mutant: the browser is opened right after server.listen() is called, not
\* in its callback, so it is open although the port could not be bound.
ListenError_OpensBrowser ==
    /\ pc = "auth_wait"
    /\ listener = "binding"
    /\ listener' = "closed"
    /\ browser' = "opened"
    /\ pc' = "crashed"
    /\ err' = Failure("EADDRINUSE", "listen EADDRINUSE")
    /\ UNCHANGED <<envVars, runs, cmd, snapshot>>
    /\ NoRequest
    /\ UNCHANGED outVars
    /\ UNCHANGED <<authGlobal, pkce, served, outcome, timerAt>>
    /\ UNCHANGED callVars

\* The port is taken: the server's 'error' event has no handler and the
\* process dies of the uncaught exception.
ListenError ==
    /\ pc = "auth_wait"
    /\ listener = "binding"
    /\ listener' = "closed"
    /\ pc' = "crashed"
    /\ err' = Failure("EADDRINUSE", "listen EADDRINUSE")
    /\ UNCHANGED <<envVars, runs, cmd, snapshot>>
    /\ NoRequest
    /\ UNCHANGED outVars
    /\ UNCHANGED <<authGlobal, pkce, served, outcome, timerAt, browser>>
    /\ UNCHANGED callVars

\* A request arrives and the request handler runs.  The server serves a
\* request while it listens, and after server.close() on a connection it
\* accepted earlier (close() keeps the connections that are sending a request).
Request(q) ==
    /\ pc \in {"auth_wait", "auth_exchange"}
    /\ listener \in {"listening", "closed"}
    /\ served < MaxRequests
    /\ served' = served + 1
    /\ lastReq' = IF outcome.kind = "pending" THEN q ELSE NoQuery
    /\ LET h == handleRequest(q, pkce.state)
           o == settlePromise(outcome, h.settle)
       IN
        /\ lastStatus' = h.status
        /\ listener' = closeServer(listener, h.close)
        /\ outcome' = o
        /\ Continue(o)
    /\ UNCHANGED outVars
    /\ UNCHANGED <<envVars, runs, cmd, snapshot>>
    /\ UNCHANGED <<authGlobal, pkce, timerAt, browser>>
    /\ UNCHANGED <<lastResp, startedAt, readPath, retToken, retRecord, saveArg>>

\* The 5-minute timer fires; nothing in performAuth clears it.
Timeout ==
    /\ pc \in {"auth_wait", "auth_exchange"}
    /\ listener # "binding"
    /\ timerAt >= 0
    /\ now >= timerAt
    /\ timerAt' = -1
    /\ LET o == settlePromise(outcome, handleTimeout.settle) IN
        /\ listener' = closeServer(listener, handleTimeout.close)
        /\ outcome' = o
        /\ Continue(o)
    /\ UNCHANGED <<envVars, runs, cmd, snapshot>>
    /\ NoRequest
    /\ UNCHANGED outVars
    /\ UNCHANGED <<authGlobal, pkce, served, browser>>
    /\ UNCHANGED <<lastResp, startedAt, readPath, retToken, retRecord, saveArg>>

\* The token endpoint answers the code exchange; on success the record is
\* saved and performAuth ends the process with process.exit(0).
ExchangeResponse(data) ==
    /\ pc = "auth_exchange"
    /\ lastResp' = data
    /\ IF ~data.ok
       THEN /\ pc' = "failed"
            /\ err' = Failure("TransportError", "fetch failed")
            /\ UNCHANGED <<tokenFile, tokenDir>>
       ELSE IF hasProviderError(data)
       THEN /\ pc' = "failed"
            /\ err' = Failure("TokenExchangeFailed", providerMessage(data))
            /\ UNCHANGED <<tokenFile, tokenDir>>
       ELSE LET tokenData == exchangeTokenData(data, now) IN
            /\ tokenDir' = saveTokenDir(tokenDir, authGlobal)
            /\ tokenFile' = saveTokenFile(tokenFile, tokenData, authGlobal)
            /\ pc' = "done"
            /\ UNCHANGED err
    /\ UNCHANGED <<gitignore, credEnv, now, nonce, runs, cmd, snapshot>>
    /\ NoRequest
    /\ UNCHANGED outVars
    /\ UNCHANGED <<authVars, tokenReqs, startedAt, readPath, retToken, retRecord,
                   saveArg>>

-----------------------------------------------------------------------------
(* Two processes in saveToken at once *)

\* Two processes (two commands that both refresh, say) reach saveToken for
\* the same scope at the same time.
StartWriters(r1, r2, global) ==
    /\ pc = "idle"
    /\ writers = NoWriters
    /\ writers' = [w \in 1..2 |->
            Writer("start", <<IF w = 1 THEN r1 ELSE r2>>, global, 0)]
    /\ NoRequest
    /\ UNCHANGED <<envVars, runs, pc, cmd, snapshot, err, stdout, authUrl>>
    /\ UNCHANGED <<authVars, callVars>>

\* saveToken of process w up to the open inside fs.writeFile.
WriterOpen(w) ==
    /\ writers[w].pc = "start"
    /\ tokenDir' = saveTokenDir(tokenDir, writers[w].global)
    /\ tokenFile' = writeFileOpen(tokenFile, TokenScope(writers[w].global))
    /\ writers' = [writers EXCEPT ![w].pc = "opened"]
    /\ NoRequest
    /\ UNCHANGED <<gitignore, credEnv, now, nonce>>
    /\ UNCHANGED <<runs, pc, cmd, snapshot, err, stdout, authUrl>>
    /\ UNCHANGED <<authVars, callVars>>

\* The write and close of fs.writeFile in process w.
WriterWrite(w) ==
    /\ writers[w].pc = "opened"
    /\ tokenFile' = writeFileWrite(tokenFile, TokenScope(writers[w].global),
                                   JSONstringify(writers[w].tokenData[1]))
    /\ writers' = [writers EXCEPT
            ![w].pc = "written",
            ![w].wrote = 1 + Cardinality({v \in 1..2 : writers[v].pc = "written"})]
    /\ NoRequest
    /\ UNCHANGED <<tokenDir, gitignore, credEnv, now, nonce>>
    /\ UNCHANGED <<runs, pc, cmd, snapshot, err, stdout, authUrl>>
    /\ UNCHANGED <<authVars, callVars>>

WriteNext ==
    \/ \E r1 \in SaveInputs, r2 \in SaveInputs, g \in BOOLEAN :
            StartWriters(r1, r2, g)
    \/ \E w \in 1..2 : WriterOpen(w)
    \/ \E w \in 1..2 : WriterWrite(w)

WriteSpec == Init /\ [][WriteNext]_vars

\* The check command over every kind of token file: absent, stored by an
\* earlier run, or cut short.
CheckInit ==
    /\ tokenFile \in
            {f \in [Scopes -> UNION {InitFiles(s) \cup {<<CorruptText>>} :
                                        s \in Scopes}] :
                \A s \in Scopes : f[s] \in InitFiles(s) \cup {<<CorruptText>>}}
    /\ InitRest

CheckNext ==
    \/ Tick
    \/ Reset
    \/ \E s \in Scopes : RemoveToken(s)
    \/ CheckAuth

CheckSpec == CheckInit /\ [][CheckNext]_vars

-----------------------------------------------------------------------------
(* Specification *)

Next ==
    \/ Tick
    \/ Reset
    \/ \E s \in Scopes : RemoveToken(s)
    \/ \E r \in SaveInputs, g \in BOOLEAN : SaveToken(r, g)
    \/ LoadToken
    \/ CheckAuth
    \/ SaveThenLoad
    \/ GetValidAccessToken
    \/ GetValidAccessTokenAgain
    \/ \E d \in Responses : RefreshResponse(d)
    \/ \E g \in BOOLEAN : PerformAuth(g)
    \/ Listening
    \/ ListeningSpawnError
    \/ ListenError
    \/ \E q \in Queries(pkce.state) : Request(q)
    \/ Timeout
    \/ \E d \in Responses : ExchangeResponse(d)

Spec == Init /\ [][Next]_vars

\* The event loop runs a due timer, and time passes.
FairInit ==
    /\ Init
    /\ \A s \in Scopes :
        HasFile(tokenFile, s) /\ readTokenFile(tokenFile, s).expires_at = 240000
    /\ gitignore = <<>>

\* A start with both token files on disk, the Global record valid for another
\* 10 minutes (beyond the refresh buffer).
GlobalValidInit ==
    /\ tokenFile \in
            {[Project |-> <<JSONstringify(StoredRecord("Project", e))>>,
              Global |-> <<JSONstringify(StoredRecord("Global", 600000))>>] :
                e \in InitExpiries("Project")}
    /\ InitRest

GlobalValidSpec == GlobalValidInit /\ [][Next]_vars

FairSpec == FairInit /\ [][Next]_vars /\ WF_vars(Tick) /\ WF_vars(Timeout)

-----------------------------------------------------------------------------
(* Properties *)

\* The step is the request handler handling a request while the callback
\* promise is pending.
HandlesWhilePending == served' = served + 1 /\ outcome.kind = "pending"

AllFieldsSet(r) ==
    /\ r.access_token # Undef
    /\ r.refresh_token # Undef
    /\ r.scope # Undef
    /\ r.token_type # Undef

Refreshed == cmd = "getValidAccessToken" /\ pc = "done" /\ Len(tokenReqs) = 1

\* C1 as stated: while the callback wait is pending, every request whose state
\* parameter differs from the expected state (a missing one included) makes
\* the wait fail with StateMismatch.
C1_Original ==
    [][(HandlesWhilePending /\ lastReq'.state # pkce.state)
        => outcome'.kind = "StateMismatch"]_vars

\* C1 as amended: while the callback wait is pending, a request whose state
\* parameter differs from the expected state (a missing one included) never
\* yields a code and sends no token request, with or without a code
\* parameter; the wait fails, with StateMismatch when the request carries no
\* non-empty error parameter and with ProviderDenied when it carries one.
C1_StateCheck ==
    [][(HandlesWhilePending /\ lastReq'.state # pkce.state)
        => /\ outcome'.kind # "code"
           /\ pc' = "failed"
           /\ tokenReqs' = <<>>
           /\ lastStatus' = 400
           /\ IF Truthy(lastReq'.error)
              THEN outcome'.kind = "ProviderDenied" /\ err'.kind = "ProviderDenied"
              ELSE outcome'.kind = "StateMismatch" /\ err'.kind = "StateMismatch"]_vars

C1_Witness ==
    /\ lastReq.state # pkce.state
    /\ lastReq.code = "ABC"
    /\ ~Truthy(lastReq.error)
    /\ outcome.kind = "StateMismatch"
    /\ pc = "failed"

\* C2: while the callback wait is pending, a request carrying both an error
\* parameter and a code parameter makes the wait fail with ProviderDenied,
\* is answered 400 and stops the listener; it never yields the code.
C2_ErrorPrecedence ==
    [][(HandlesWhilePending /\ lastReq'.error # Undef /\ lastReq'.code # Undef)
        => /\ outcome'.kind = "ProviderDenied"
           /\ lastStatus' = 400
           /\ listener' = "closed"]_vars

\* C3: within one performAuth the callback promise keeps its first
\* settlement (a code, a denial, a state mismatch or the timeout) whatever
\* request or timer comes later, and once it is settled the listener is closed.
C3_OneOutcome ==
    [][/\ (outcome.kind # "pending" /\ pc' # "idle") => outcome' = outcome
       /\ outcome'.kind # "pending" => listener' = "closed"
       /\ outcome'.kind \in
            {"pending", "code", "ProviderDenied", "StateMismatch", "Timeout"}]_vars

C3_Witness ==
    /\ outcome.kind = "code"
    /\ pc = "auth_exchange"
    /\ served = 2
    /\ lastStatus = 400
    /\ listener = "closed"

\* C4: a performAuth that waits on its listener eventually either is sent a
\* terminal callback request or fails with AuthTimeout, with the listener
\* closed, no token request sent and the token files as they were.
C4_Timeout ==
    (pc = "auth_wait" /\ listener = "listening")
        ~> \/ outcome.kind \in {"code", "ProviderDenied", "StateMismatch"}
           \/ /\ outcome.kind = "Timeout"
              /\ pc = "failed"
              /\ err.kind = "AuthTimeout"
              /\ listener = "closed"
              /\ tokenReqs = <<>>
              /\ tokenFile = snapshot

C4_Witness ==
    /\ outcome.kind = "Timeout"
    /\ err.kind = "AuthTimeout"
    /\ served = 1
    /\ now >= TIMEOUT_MS

\* C5: a getValidAccessToken that has read a stored record sends exactly one
\* refresh request when the record's expires_at is less than 5 minutes after
\* now, and otherwise sends none, returns the stored access_token and leaves
\* the token files as they were.
C5_Freshness ==
    (cmd = "getValidAccessToken" /\ readPath # "none")
        => IF readTokenFile(snapshot, readPath).expires_at < startedAt + 5 * 60 * 1000
           THEN /\ Len(tokenReqs) = 1
                /\ tokenReqs[1].grant_type = "refresh_token"
           ELSE /\ tokenReqs = <<>>
                /\ pc = "done"
                /\ retToken = readTokenFile(snapshot, readPath).access_token
                /\ tokenFile = snapshot

C5_Witness ==
    /\ cmd = "getValidAccessToken"
    /\ pc = "done"
    /\ readTokenFile(snapshot, readPath).expires_at = startedAt + 4 * 60 * 1000
    /\ Len(tokenReqs) = 1

\* C6: every record in a token file has all five fields set, and a code
\* exchange or refresh that fails, or whose response carries no
\* access_token, leaves the token files of both scopes as they were.
C6_NoPartialRecord ==
    /\ \A s \in Scopes :
        HasFile(tokenFile, s) => AllFieldsSet(readTokenFile(tokenFile, s))
    /\ (cmd \in {"performAuth", "getValidAccessToken"} /\ pc = "failed")
            => tokenFile = snapshot
    /\ (lastResp.ok /\ lastResp.access_token = Undef) => tokenFile = snapshot

\* C7: after a refresh that succeeded the refresh_token of the persisted
\* record is the one stored before when the response has no refresh_token,
\* and the response's when it has one.
C7_RefreshTokenRetention ==
    Refreshed =>
        readTokenFile(tokenFile, readPath).refresh_token =
            IF lastResp.refresh_token = Undef
            THEN readTokenFile(snapshot, readPath).refresh_token
            ELSE lastResp.refresh_token

C7_Witness ==
    /\ Refreshed
    /\ readPath = "Project"
    /\ lastResp.access_token = "atN"
    /\ lastResp.refresh_token = Undef
    /\ readTokenFile(tokenFile, "Project").access_token = "atN"
    /\ readTokenFile(tokenFile, "Project").refresh_token = "rtP"

\* C8: after a refresh the refreshed record is in the token file of the
\* scope the stale record was read from, and the token file of the other
\* scope is as it was.
C8_RefreshScope ==
    Refreshed =>
        /\ HasFile(tokenFile, readPath)
        /\ readTokenFile(tokenFile, readPath).access_token = lastResp.access_token
        /\ readTokenFile(tokenFile, readPath).expires_at = expiresAt(lastResp, now)
        /\ tokenFile[OtherScope(readPath)] = snapshot[OtherScope(readPath)]

C8_Witness ==
    /\ Refreshed
    /\ readPath = "Global"
    /\ tokenFile["Global"] # snapshot["Global"]
    /\ ~HasFile(tokenFile, "Project")

\* C9: loadToken returns the Project record whenever a Project file exists,
\* the Global record only when no Project file exists, each as a whole, and
\* fails when neither exists.
C9_ScopeResolution ==
    (cmd = "loadToken" /\ Exited)
        => IF HasFile(snapshot, "Project")
           THEN pc = "done" /\ retRecord = <<readTokenFile(snapshot, "Project")>>
           ELSE IF HasFile(snapshot, "Global")
           THEN pc = "done" /\ retRecord = <<readTokenFile(snapshot, "Global")>>
           ELSE pc = "failed" /\ err.kind = "TokenNotFound"

C9_Witness ==
    /\ cmd = "loadToken"
    /\ pc = "done"
    /\ HasFile(snapshot, "Project")
    /\ HasFile(snapshot, "Global")
    /\ retRecord = <<readTokenFile(snapshot, "Project")>>
    /\ retRecord # <<readTokenFile(snapshot, "Global")>>

\* C10: saveToken, and performAuth when it persists the exchanged record,
\* write the token file of the requested scope (Project unless global is
\* asked for) and leave the other scope's token file as it was.
C10_WriteScope ==
    /\ (cmd = "saveToken" /\ pc = "done")
            => /\ HasFile(tokenFile, TokenScope(authGlobal))
               /\ readTokenFile(tokenFile, TokenScope(authGlobal)) \in SaveInputs
               /\ tokenFile[OtherScope(TokenScope(authGlobal))]
                    = snapshot[OtherScope(TokenScope(authGlobal))]
    /\ (cmd = "performAuth" /\ pc = "done")
            => /\ HasFile(tokenFile, TokenScope(authGlobal))
               /\ readTokenFile(tokenFile, TokenScope(authGlobal))
                    = exchangeTokenData(lastResp, now)
               /\ tokenFile[OtherScope(TokenScope(authGlobal))]
                    = snapshot[OtherScope(TokenScope(authGlobal))]

C10_Witness ==
    /\ cmd = "performAuth"
    /\ pc = "done"
    /\ authGlobal
    /\ HasFile(snapshot, "Project")
    /\ tokenFile["Global"] # snapshot["Global"]
    /\ tokenFile["Project"] = snapshot["Project"]

\* C11: a record written by saveToken and read back from the file it was
\* written to is, field for field, the record that was passed: the parsed
\* content of the written file equals the argument, and so does the record
\* loadToken returns when it resolves to that file.
C11_RoundTrip ==
    /\ (cmd \in {"saveToken", "saveToken+loadToken"} /\ pc = "done")
            => /\ HasFile(tokenFile, TokenScope(authGlobal))
               /\ <<readTokenFile(tokenFile, TokenScope(authGlobal))>> = saveArg
    /\ (cmd = "saveToken+loadToken" /\ readPath = TokenScope(authGlobal))
            => pc = "done" /\ retRecord = saveArg

C11_Witness ==
    /\ cmd = "saveToken+loadToken"
    /\ pc = "done"
    /\ readPath = "Global"
    /\ authGlobal
    /\ Len(saveArg) = 1
    /\ saveArg[1].scope = ""
    /\ retRecord = saveArg

\* C12: in a performAuth run whose callback delivered a code, the token
\* endpoint is sent exactly one request, an authorization_code request with
\* that code and the verifier generated in this run; when the run succeeds
\* the record is in the token file of the requested scope, with expires_at
\* equal to the time the response was handled plus expires_in seconds.
C12_SuccessfulAuth ==
    /\ cmd = "performAuth" => Len(tokenReqs) <= 1
    /\ (cmd = "performAuth" /\ outcome.kind = "code")
            => /\ Len(tokenReqs) = 1
               /\ tokenReqs[1].grant_type = "authorization_code"
               /\ tokenReqs[1].code = outcome.val
               /\ tokenReqs[1].code_verifier = VerifierOf(nonce)
               /\ tokenReqs[1].code_verifier = pkce.verifier
    /\ (cmd = "performAuth" /\ pc = "done")
            => /\ outcome.kind = "code"
               /\ HasFile(tokenFile, TokenScope(authGlobal))
               /\ readTokenFile(tokenFile, TokenScope(authGlobal)).access_token
                    = lastResp.access_token
               /\ lastResp.expires_in # 0 =>
                    readTokenFile(tokenFile, TokenScope(authGlobal)).expires_at
                        = now + lastResp.expires_in * 1000

C12_Witness ==
    /\ cmd = "performAuth"
    /\ pc = "done"
    /\ authGlobal
    /\ now = 300000
    /\ Len(tokenReqs) = 1
    /\ tokenReqs[1].code = "ABC"
    /\ tokenReqs[1].code_verifier = "v1"
    /\ lastResp.expires_in = 3600
    /\ readTokenFile(tokenFile, "Global").expires_at = 300000 + 3600000

\* C13: the browser is opened only by the step in which the callback
\* listener becomes bound and listening, never while it is not listening.
C13_BrowserAfterListening ==
    [][(browser' = "opened" /\ browser # "opened")
            => (listener = "binding" /\ listener' = "listening")]_vars

C13_Witness ==
    /\ cmd = "performAuth"
    /\ browser = "opened"
    /\ listener = "listening"
    /\ outcome.kind = "pending"

\* C14: performAuth started where no credentials resolve fails at once with
\* CredentialsNotFound, and the failing run generates no PKCE values, starts
\* no listener and no timer, opens no browser, sends no token request and
\* leaves the token files, their directories and .gitignore as they were.
C14_NoCredentialsFirst ==
    [][(cmd' = "performAuth" /\ cmd # "performAuth"
            /\ ~loadCredentials(credEnv).ok)
        => /\ pc' = "failed"
           /\ err'.kind = "CredentialsNotFound"
           /\ pkce' = NoPkce
           /\ listener' = "none"
           /\ timerAt' = -1
           /\ browser' = "none"
           /\ tokenReqs' = <<>>
           /\ UNCHANGED <<tokenFile, tokenDir, gitignore, nonce>>]_vars

C14_Witness ==
    /\ cmd = "performAuth"
    /\ pc = "failed"
    /\ err.kind = "CredentialsNotFound"
    /\ ~tokenDir["Project"]
    /\ gitignore = <<>>
    /\ listener = "none"

\* C15: while the callback wait is pending, a request on a path other than
\* the redirect path is answered 404 and leaves the wait pending and the
\* listener listening, so that a later valid callback can still deliver
\* its code.
C15_OtherPathNotFound ==
    [][(HandlesWhilePending /\ lastReq'.path # "/callback")
        => /\ lastStatus' = 404
           /\ outcome'.kind = "pending"
           /\ listener' = listener
           /\ pc' = pc]_vars

\* C16: a command that loads credentials uses the pair of the credentials
\* file when the file parses and both of its fields are non-empty; otherwise
\* it uses the 1Password pair, and only when the CLI is available and both
\* lookups gave a value; otherwise it fails with CredentialsNotFound.  The
\* two fields it sends always come from the same source.
C16_CredentialResolution ==
    (cmd \in {"performAuth", "getValidAccessToken"} /\ pc # "idle")
        => IF /\ credEnv.file = "json"
              /\ credEnv.client_id \notin {Undef, ""}
              /\ credEnv.client_secret \notin {Undef, ""}
           THEN /\ err.kind # "CredentialsNotFound"
                /\ \A i \in 1..Len(tokenReqs) :
                    /\ tokenReqs[i].client_id = credEnv.client_id
                    /\ tokenReqs[i].client_secret = credEnv.client_secret
           ELSE IF /\ credEnv.op
                   /\ credEnv.op_id \notin {Undef, ""}
                   /\ credEnv.op_secret \notin {Undef, ""}
           THEN /\ err.kind # "CredentialsNotFound"
                /\ \A i \in 1..Len(tokenReqs) :
                    /\ tokenReqs[i].client_id = credEnv.op_id
                    /\ tokenReqs[i].client_secret = credEnv.op_secret
           ELSE /\ pc = "failed"
                /\ err.kind = "CredentialsNotFound"
                /\ tokenReqs = <<>>

C16_Witness ==
    /\ cmd = "performAuth"
    /\ credEnv.file = "json"
    /\ credEnv.client_id = "fid"
    /\ credEnv.client_secret = ""
    /\ Len(tokenReqs) = 1
    /\ tokenReqs[1].client_id = "oid"
    /\ tokenReqs[1].client_secret = "osec"

\* C17: when the body of the token endpoint's response to the code exchange
\* or to the refresh carries an error field, whatever the HTTP status, the
\* command fails with TokenExchangeFailed whose message is the body's
\* error_description, or its error code when it has no description, and
\* the token files are as they were when the command started.
C17_ProviderError ==
    (cmd \in {"performAuth", "getValidAccessToken"}
        /\ lastResp.ok /\ lastResp.error # Undef)
        => /\ pc = "failed"
           /\ err.kind = "TokenExchangeFailed"
           /\ err.msg = IF lastResp.error_description # Undef
                        THEN lastResp.error_description
                        ELSE lastResp.error
           /\ tokenFile = snapshot
           /\ retToken = Undef

C17_Witness ==
    /\ cmd = "performAuth"
    /\ pc = "failed"
    /\ lastResp.status = 200
    /\ lastResp.error = "invalid_client"
    /\ lastResp.error_description = Undef
    /\ err = Failure("TokenExchangeFailed", "invalid_client")
    /\ tokenFile = snapshot

\* C18: the record written by a successful code exchange or refresh has
\* expires_at equal to the time the response was handled plus expires_in
\* seconds in milliseconds, 3600 seconds when the body has no expires_in,
\* and that is later than the time the response was handled.
C18_ExpiresAt ==
    (cmd \in {"performAuth", "getValidAccessToken"} /\ pc = "done" /\ lastResp.ok)
        => LET written == IF cmd = "performAuth"
                          THEN TokenScope(authGlobal) ELSE readPath
               seconds == IF lastResp.expires_in # 0
                          THEN lastResp.expires_in ELSE 3600
           IN
            /\ HasFile(tokenFile, written)
            /\ readTokenFile(tokenFile, written).expires_at = now + seconds * 1000
            /\ readTokenFile(tokenFile, written).expires_at > now

C18_Witness ==
    /\ cmd = "getValidAccessToken"
    /\ pc = "done"
    /\ now = 300000
    /\ lastResp.expires_in = 240
    /\ readTokenFile(tokenFile, readPath).expires_at = 540000

\* C19: when the body of a successful code exchange or refresh carries an
\* access token and no token_type, the record written has token_type
\* "Bearer".
C19_TokenTypeDefault ==
    (cmd \in {"performAuth", "getValidAccessToken"} /\ pc = "done"
        /\ lastResp.ok /\ lastResp.access_token # Undef
        /\ lastResp.token_type = Undef)
        => LET written == IF cmd = "performAuth"
                          THEN TokenScope(authGlobal) ELSE readPath
           IN
            /\ HasFile(tokenFile, written)
            /\ readTokenFile(tokenFile, written).token_type = "Bearer"

\* C20: every request sent to the token endpoint carries client_id,
\* client_secret and scope; an authorization_code request also carries
\* code, redirect_uri and code_verifier, a refresh_token request also
\* carries refresh_token.
C20_RequestParameters ==
    \A i \in 1..Len(tokenReqs) :
        /\ tokenReqs[i].client_id # Undef
        /\ tokenReqs[i].client_secret # Undef
        /\ tokenReqs[i].scope # Undef
        /\ tokenReqs[i].grant_type \in {"authorization_code", "refresh_token"}
        /\ tokenReqs[i].grant_type = "authorization_code"
                => /\ tokenReqs[i].code # Undef
                   /\ tokenReqs[i].redirect_uri # Undef
                   /\ tokenReqs[i].code_verifier # Undef
        /\ tokenReqs[i].grant_type = "refresh_token"
                => tokenReqs[i].refresh_token # Undef

C22_JsonOutput ==
    (cmd \in {"performAuth", "check"} /\ pc = "done") => Len(stdout) = 1

\* C23: the step in which openBrowser is called, whether the browser opens
\* or not, leaves performAuth waiting for the callback with the listener
\* listening.
C23_BrowserFailureNotFatal ==
    [][(browser' = "opened" /\ browser # "opened")
        => /\ pc' = "auth_wait"
           /\ listener' = "listening"
           /\ outcome'.kind = "pending"]_vars

C25_RaceCancels ==
    [][/\ (outcome.kind = "pending" /\ outcome'.kind = "code")
            => timerAt' = -1
       /\ (outcome.kind = "code" /\ pc' # "idle")
            => timerAt' = timerAt
       /\ (outcome.kind = "pending" /\ outcome'.kind = "Timeout")
            => listener' = "closed"
       /\ outcome.kind = "Timeout" => served' = served]_vars

\* C26: a getValidAccessToken call that finds a stored record whose
\* expires_at is at least 5 minutes ahead returns that record's
\* access_token, whether credentials resolve or not.
C26_CredentialsOnlyForRefresh ==
    (cmd = "getValidAccessToken" /\ pc # "idle"
        /\ findTokenPath(snapshot) # "none"
        /\ readTokenFile(snapshot, findTokenPath(snapshot)).expires_at
                >= startedAt + 5 * 60 * 1000)
        => /\ pc = "done"
           /\ err = NoError
           /\ tokenReqs = <<>>
           /\ retToken
                = readTokenFile(snapshot, findTokenPath(snapshot)).access_token

\* C27: a performAuth whose callback wait ended in a denial, a state
\* mismatch or the timeout has failed with that error, has sent no request
\* to the token endpoint, has its listener closed for good and has left the
\* token files as they were.
C27_NoRetry ==
    (cmd = "performAuth"
        /\ outcome.kind \in {"ProviderDenied", "StateMismatch", "Timeout"})
        => /\ pc = "failed"
           /\ err.kind = IF outcome.kind = "Timeout"
                         THEN "AuthTimeout" ELSE outcome.kind
           /\ tokenReqs = <<>>
           /\ listener = "closed"
           /\ pkce.verifier = VerifierOf(nonce)
           /\ tokenFile = snapshot

C27_Witness ==
    /\ cmd = "performAuth"
    /\ outcome.kind = "ProviderDenied"
    /\ err.kind = "ProviderDenied"
    /\ pc = "failed"
    /\ served = 1
    /\ tokenReqs = <<>>

\* C28: when two processes have written a record to the token file of the
\* same scope concurrently, the file holds the text of the record written
\* last, whole, and nothing else.
C28_LastWriteWins ==
    (\A w \in 1..2 : writers[w].pc = "written")
        => \E w \in 1..2 :
            /\ writers[w].wrote = 2
            /\ tokenFile[TokenScope(writers[w].global)]
                    = <<JSONstringify(writers[w].tokenData[1])>>

\* C29: when getValidAccessToken has refreshed successfully and the provider's
\* expires_in exceeds the 5-minute buffer, the call that follows at once sends
\* no refresh request, leaves the token file alone and returns the
\* access_token that the refresh obtained.
C29_SecondCallNoRefresh ==
    [][(/\ cmd = "getValidAccessToken"
        /\ cmd' = "getValidAccessToken+getValidAccessToken"
        /\ Len(tokenReqs) = 1
        /\ lastResp.ok /\ ~hasProviderError(lastResp)
        /\ lastResp.expires_in * 1000 > bufferMs)
            => (/\ pc' = "done"
                /\ tokenReqs' = tokenReqs
                /\ tokenFile' = tokenFile
                /\ retToken' = lastResp.access_token
                /\ retToken' = retToken)]_vars

C29_Witness ==
    /\ cmd = "getValidAccessToken+getValidAccessToken"
    /\ pc = "done"
    /\ Len(tokenReqs) = 1
    /\ lastResp.ok
    /\ lastResp.expires_in = 3600
    /\ retToken = lastResp.access_token
    /\ readTokenFile(tokenFile, readPath).access_token = retToken

\* C30: a callback request with no error parameter, the expected state and
\* no code parameter is answered 404 and settles nothing: the wait stays
\* pending, the listener stays as it was and no token request is sent; a
\* request handled after it, while the wait is still pending, that carries
\* the expected state and a code is answered 200 and yields that code to the
\* code exchange.
C30_MissingCodeKeepsWaiting ==
    /\ [][(/\ HandlesWhilePending
            /\ lastReq'.error = Undef
            /\ lastReq'.state = pkce.state
            /\ lastReq'.code = Undef)
                => (/\ lastStatus' = 404
                    /\ outcome' = Pending
                    /\ listener' = listener
                    /\ listener' = "listening"
                    /\ pc' = "auth_wait"
                    /\ tokenReqs' = tokenReqs)]_vars
    /\ [][(/\ HandlesWhilePending
            /\ served >= 1
            /\ lastReq'.error = Undef
            /\ lastReq'.state = pkce.state
            /\ Truthy(lastReq'.code))
                => (/\ lastStatus' = 200
                    /\ outcome' = Settled("code", lastReq'.code)
                    /\ pc' = "auth_exchange"
                    /\ tokenReqs' = Append(tokenReqs,
                            exchangeRequest(loadCredentials(credEnv),
                                            lastReq'.code, pkce.verifier)))]_vars

C30_Witness ==
    /\ cmd = "performAuth"
    /\ served = 2
    /\ lastReq.error = Undef
    /\ lastReq.state = pkce.state
    /\ lastReq.code = "ABC"
    /\ lastStatus = 200
    /\ outcome = Settled("code", "ABC")
    /\ pc = "auth_exchange"
    /\ listener = "closed"

\* C31: when a Project token file exists, getValidAccessToken reads the
\* Project record and no other: a refresh it sends carries the Project
\* record's refresh_token, and when that refresh fails the call fails with the
\* refresh error, returns no access_token and leaves both token files as
\* they were, however valid the Global record is; an access_token the call
\* does return is the one of the Project record on disk.
C31_ProjectOnly ==
    (/\ cmd \in {"getValidAccessToken",
                 "getValidAccessToken+getValidAccessToken"}
     /\ HasFile(snapshot, "Project")
     /\ err.kind # "CredentialsNotFound")
        => /\ readPath = "Project"
           /\ pc = "done"
                => retToken = readTokenFile(tokenFile, "Project").access_token
           /\ (pc = "failed" /\ cmd = "getValidAccessToken")
                => retToken = Undef
           /\ pc = "gvat_refresh"
                => tokenReqs[Len(tokenReqs)].refresh_token
                        = readTokenFile(snapshot, "Project").refresh_token
           /\ (pc \in {"done", "failed"} /\ Len(tokenReqs) = 0)
                => pc = "done" /\ tokenFile = snapshot
           /\ (pc \in {"done", "failed"} /\ Len(tokenReqs) > 0
                    /\ (~lastResp.ok \/ hasProviderError(lastResp)))
                => /\ pc = "failed"
                   /\ err.kind \in {"TransportError", "TokenExchangeFailed"}
                   /\ tokenFile = snapshot

C31_Witness ==
    /\ cmd = "getValidAccessToken"
    /\ pc = "failed"
    /\ err.kind = "TokenExchangeFailed"
    /\ readPath = "Project"
    /\ needsRefresh(readTokenFile(snapshot, "Project"), startedAt)
    /\ HasFile(snapshot, "Global")
    /\ ~needsRefresh(readTokenFile(snapshot, "Global"), now)
    /\ retToken = Undef
    /\ tokenFile = snapshot

\* C32: the check command always completes and prints one result. The
\* result says authenticated exactly when the token file that scope
\* resolution selects (Project, else Global) can be read and its expires_at
\* is strictly later than now; when there is no token file, or the selected
\* one cannot be parsed, it says not authenticated and carries an error. No
\* token request is sent and no token file changes.
C32_CheckAuthReadOnly ==
    (cmd = "check" /\ pc # "idle")
        => LET tokenPath == IF HasFile(snapshot, "Project") THEN "Project"
                            ELSE IF HasFile(snapshot, "Global") THEN "Global"
                            ELSE "none"
               readable == /\ tokenPath # "none"
                           /\ JSONparses(snapshot[tokenPath][1])
           IN
           /\ pc = "done"
           /\ err = NoError
           /\ Len(stdout) = 1
           /\ stdout[1].authenticated
                <=> (readable
                        /\ JSONparse(snapshot[tokenPath][1]).expires_at > now)
           /\ ~readable => (~stdout[1].authenticated /\ stdout[1].error # Undef)
           /\ tokenFile = snapshot
           /\ tokenReqs = <<>>
           /\ lastResp = NoResponse

C32_Witness ==
    /\ cmd = "check"
    /\ pc = "done"
    /\ snapshot["Project"] = <<CorruptText>>
    /\ HasFile(snapshot, "Global")
    /\ JSONparses(snapshot["Global"][1])
    /\ JSONparse(snapshot["Global"][1]).expires_at > now
    /\ stdout = << [authenticated |-> FALSE, error |-> "SyntaxError"] >>
    /\ tokenFile = snapshot

====
